---- MODULE Spec2Model ----
(***************************************************************************)
(* EzyPlates plate search: the single-plate check (plate_search.py and     *)
(* plate_search_simple.py), the plate validator and the batch driver       *)
(* (batch_plate_search.py).                                                *)
(*                                                                         *)
(* A Python str is a sequence of one-character strings.  None is the       *)
(* string "None".  Timestamps (datetime.now) and console output are not    *)
(* part of the state.                                                      *)
(***************************************************************************)
EXTENDS Integers, Sequences, FiniteSets, TLC

VARIABLES
    fn,            \* which function the current run exercises / has exercised
    arg,           \* argument of the function under test (page text or raw plate)
    ret,           \* value returned by the function under test, or None
    pc,            \* position of search_multiple_plates
    plate_numbers, \* search_multiple_plates: the input list
    output_file,   \* search_multiple_plates: TRUE when an output file was given
    driver,        \* search_multiple_plates: None or the browser session
    i,             \* search_multiple_plates: 1-based index of the loop
    results,       \* search_multiple_plates: the result list
    calls,         \* plate_number argument of every search_plate_number call
    typed,         \* every value sent to the page input (send_keys)
    seen,          \* per result: what the page did ("none" for an invalid input)
    events,        \* log of browser-backed checks, pauses and driver.quit()
    started,       \* number of browser processes webdriver.Chrome has started
    quits,         \* number of driver.quit() calls
    saved,         \* << >>, or << rows >> once save_results_to_csv has written rows
    summary,       \* << >>, or << list >> once print_summary has printed list
    how            \* how the try block of search_multiple_plates was left

vars == << fn, arg, ret, pc, plate_numbers, output_file, driver, i, results,
           calls, typed, seen, events, started, quits, saved, summary, how >>

None == "None"

----------------------------------------------------------------------------
(* Bounds *)

\* page texts are built from at most MaxWords vocabulary fragments
MaxWords == 3
\* raw plates are built from at most MaxFrags fragments
MaxFrags == 3
\* a batch has at most MaxPlates inputs
MaxPlates == 3

----------------------------------------------------------------------------
(* Python str operations *)

UpperSeq == << "A","B","C","D","E","F","G","H","I","J","K","L","M",
               "N","O","P","Q","R","S","T","U","V","W","X","Y","Z" >>
LowerSeq == << "a","b","c","d","e","f","g","h","i","j","k","l","m",
               "n","o","p","q","r","s","t","u","v","w","x","y","z" >>
Digits   == { "0","1","2","3","4","5","6","7","8","9" }

Range(s) == { s[k] : k \in 1..Len(s) }

IsUpperCh(c) == c \in Range(UpperSeq)
IsLowerCh(c) == c \in Range(LowerSeq)
IsAlnumCh(c) == IsUpperCh(c) \/ IsLowerCh(c) \/ c \in Digits
\* str.strip() characters that occur in the model's alphabet
IsSpaceCh(c) == c \in { " ", "\t" }

LowerCh(c) == IF IsUpperCh(c)
              THEN LowerSeq[CHOOSE k \in 1..26 : UpperSeq[k] = c]
              ELSE c
UpperCh(c) == IF IsLowerCh(c)
              THEN UpperSeq[CHOOSE k \in 1..26 : LowerSeq[k] = c]
              ELSE c

\* str.lower(), str.upper()
Lower(s) == [ k \in 1..Len(s) |-> LowerCh(s[k]) ]
Upper(s) == [ k \in 1..Len(s) |-> UpperCh(s[k]) ]

\* sub in s
Contains(s, sub) ==
    \E k \in 0..(Len(s) - Len(sub)) :
        \A j \in 1..Len(sub) : s[k + j] = sub[j]

\* str.strip(): drop leading and trailing whitespace
RECURSIVE LStrip(_)
LStrip(s) == IF s # << >> /\ IsSpaceCh(Head(s)) THEN LStrip(Tail(s)) ELSE s
RECURSIVE RStrip(_)
RStrip(s) == IF s # << >> /\ IsSpaceCh(s[Len(s)])
             THEN RStrip(SubSeq(s, 1, Len(s) - 1)) ELSE s
Strip(s) == RStrip(LStrip(s))

\* s.replace(" ", ""): drop every space character (and only the space)
RECURSIVE ReplaceSpace(_)
ReplaceSpace(s) ==
    IF s = << >> THEN << >>
    ELSE IF Head(s) = " " THEN ReplaceSpace(Tail(s))
         ELSE << Head(s) >> \o ReplaceSpace(Tail(s))

\* str.isalnum(): non-empty and every character is a letter or a digit
IsAlnum(s) == s # << >> /\ \A k \in 1..Len(s) : IsAlnumCh(s[k])

\* concatenation of a sequence of strings
RECURSIVE Join(_)
Join(ws) == IF ws = << >> THEN << >> ELSE Head(ws) \o Join(Tail(ws))

\* all sequences over S of length at most n
SeqUpTo(S, n) == UNION { [ 1..k -> S ] : k \in 0..n }

----------------------------------------------------------------------------
(* String literals of the source *)

sNOTavailable    == << "N","O","T"," ","a","v","a","i","l","a","b","l","e" >>
sNotAvailable    == << "n","o","t"," ","a","v","a","i","l","a","b","l","e" >>
sUnavailable     == << "u","n","a","v","a","i","l","a","b","l","e" >>
sCongratulations == << "C","o","n","g","r","a","t","u","l","a","t","i","o","n","s" >>
sAvailable       == << "a","v","a","i","l","a","b","l","e" >>
sAlreadyTaken    == << "a","l","r","e","a","d","y"," ","t","a","k","e","n" >>
sTaken           == << "t","a","k","e","n" >>

----------------------------------------------------------------------------
(* What the page does during one search_plate_number call *)

\* fragments the result element's text is made of
Vocabulary ==
    { << "n","o","t"," " >>,
      << "N","O","T"," " >>,
      << "u","n" >>,
      << "a","v","a","i","l","a","b","l","e" >>,
      << "A","V","A","I","L","A","B","L","E" >>,
      << "t","a","k","e","n"," " >>,
      << "a","l","r","e","a","d","y"," " >>,
      << "C","o","n","g","r","a","t","u","l","a","t","i","o","n","s"," " >>,
      << "b","u","s","y"," " >> }

\* result_element.text, before strip()
PageTexts == { Join(ws) : ws \in SeqUpTo(Vocabulary, MaxWords) }

\* exceptions search_plate_number has a handler for
Raised == { "TimeoutException", "NoSuchElementException", "Exception" }

\* One interaction with the page: either every wait succeeds and the result
\* element carries text, or some step raises; sent tells whether send_keys
\* was reached before that.
PageOutcomes(texts) ==
    { [ kind |-> "text", text |-> t, sent |-> TRUE ] : t \in texts }
    \cup { [ kind |-> k, text |-> << >>, sent |-> b ] :
             k \in Raised, b \in BOOLEAN }

\* Fixed messages are kept whole, as a one-element sequence.
TimeoutMessage(variant) ==
    IF variant = "plate_search"
    THEN << "Timeout waiting for page elements to load" >>
    ELSE << "Timeout waiting for page elements to load. The website might be slow or the page structure has changed." >>
ElementMessage(variant) ==
    IF variant = "plate_search"
    THEN << "Element not found: {e}" >>
    ELSE << "Element not found: {e}. The website structure might have changed." >>
UnexpectedMessage == << "Unexpected error: {e}" >>

ErrorResult(variant, plate_number, kind) ==
    [ status |-> "error",
      message |-> CASE kind = "TimeoutException" -> TimeoutMessage(variant)
                    [] kind = "NoSuchElementException" -> ElementMessage(variant)
                    [] OTHER -> UnexpectedMessage,
      plate_number |-> plate_number ]

----------------------------------------------------------------------------
(* plate_search.py *)

\* the if/elif chain on result_text
StatusOfPlain(result_text) ==
    IF Contains(result_text, sCongratulations)
       \/ Contains(Lower(result_text), sAvailable)
    THEN "available"
    ELSE IF Contains(Lower(result_text), sUnavailable)
            \/ Contains(Lower(result_text), sNotAvailable)
         THEN "unavailable"
         ELSE "unknown"

search_plate_number_plain(plate_number, page) ==
    IF page.kind = "text"
    THEN [ status |-> StatusOfPlain(Strip(page.text)),
           message |-> Strip(page.text),
           plate_number |-> plate_number ]
    ELSE ErrorResult("plate_search", plate_number, page.kind)

----------------------------------------------------------------------------
(* plate_search_simple.py *)

\* the if/elif chain on result_text
StatusOfSimple(result_text) ==
    IF Contains(result_text, sNOTavailable)
       \/ Contains(Lower(result_text), sNotAvailable)
       \/ Contains(Lower(result_text), sUnavailable)
    THEN "unavailable"
    ELSE IF Contains(result_text, sCongratulations)
            \/ Contains(Lower(result_text), sAvailable)
         THEN "available"
         ELSE IF Contains(Lower(result_text), sAlreadyTaken)
                 \/ Contains(Lower(result_text), sTaken)
              THEN "unavailable"
              ELSE "unknown"

search_plate_number(plate_number, page) ==
    IF page.kind = "text"
    THEN [ status |-> StatusOfSimple(Strip(page.text)),
           message |-> Strip(page.text),
           plate_number |-> plate_number ]
    ELSE ErrorResult("plate_search_simple", plate_number, page.kind)

\* what search_plate_number sends to the page input
SentKeys(plate_number, page) ==
    IF page.sent THEN << plate_number >> ELSE << >>

\* validate_plate_number: << is_valid, message >>
validate_plate_number(plate_number) ==
    IF plate_number = << >>
    THEN << FALSE, << "Plate number cannot be empty" >> >>
    ELSE IF Len(plate_number) > 7
         THEN << FALSE, << "Plate number cannot be longer than 7 characters" >> >>
         ELSE IF ~ IsAlnum(ReplaceSpace(plate_number))
              THEN << FALSE, << "Plate number should only contain letters and numbers" >> >>
              ELSE << TRUE, << "Valid" >> >>

----------------------------------------------------------------------------
(* Inputs *)

\* fragments raw plate strings are made of
PlateFragments ==
    { << " " >>, << "-" >>,
      << "a","b","c","1","2","3" >>,
      << "X","Y" >>,
      << "Z","9" >> }

\* raw arguments of validate_plate_number
RawPlates == { Join(ws) : ws \in SeqUpTo(PlateFragments, MaxFrags) }

\* the plate the single-plate runs search for
OnePlate == << "A","B","C","1","2","3" >>

\* raw inputs of a batch
BatchPlates ==
    { << "A","B","1" >>,
      << "X","Y"," ","Z","9" >>,
      << " ","a","b","c","1","2","3"," " >>,
      << "A","-","1" >> }

\* result texts of the page during a batch
BatchTexts ==
    { << "a","v","a","i","l","a","b","l","e" >>,
      << "n","o","t"," ","a","v","a","i","l","a","b","l","e" >> }

\* what the page does during a batch: a result text, a wait that times out
\* before or after send_keys, a missing element after send_keys, or
\* driver.get failing before it
BatchOutcomes ==
    { p \in PageOutcomes(BatchTexts) :
        /\ p.kind = "Exception" => ~ p.sent
        /\ p.kind = "NoSuchElementException" => p.sent }

\* state of search_multiple_plates before it is called
BatchIdle ==
    /\ pc = "idle"
    /\ plate_numbers = << >>
    /\ output_file = FALSE
    /\ driver = None
    /\ i = 0
    /\ results = << >>
    /\ calls = << >>
    /\ typed = << >>
    /\ seen = << >>
    /\ events = << >>
    /\ started = 0
    /\ quits = 0
    /\ saved = << >>
    /\ summary = << >>
    /\ how = None

batchVars == << pc, plate_numbers, output_file, driver, i, results, calls,
                typed, seen, events, started, quits, saved, summary, how >>

----------------------------------------------------------------------------
(* Single calls of search_plate_number, in both variants *)

InitClassify ==
    /\ fn = "ready"
    /\ arg \in PageOutcomes(PageTexts)
    /\ ret = None
    /\ BatchIdle

CallSearchPlain ==
    /\ fn = "ready"
    /\ ret' = search_plate_number_plain(OnePlate, arg)
    /\ fn' = "plate_search"
    /\ UNCHANGED << arg, batchVars >>

CallSearchSimple ==
    /\ fn = "ready"
    /\ ret' = search_plate_number(OnePlate, arg)
    /\ fn' = "plate_search_simple"
    /\ UNCHANGED << arg, batchVars >>

NextClassify == CallSearchPlain \/ CallSearchSimple

SpecClassify == InitClassify /\ [][NextClassify]_vars

----------------------------------------------------------------------------
(* Single calls of validate_plate_number *)

InitValidate ==
    /\ fn = "ready"
    /\ arg \in RawPlates
    /\ ret = None
    /\ BatchIdle

CallValidate ==
    /\ fn = "ready"
    /\ ret' = validate_plate_number(arg)
    /\ fn' = "validate_plate_number"
    /\ UNCHANGED << arg, batchVars >>

NextValidate == CallValidate

SpecValidate == InitValidate /\ [][NextValidate]_vars

----------------------------------------------------------------------------
(* batch_plate_search.py: search_multiple_plates(plate_numbers, output_file) *)

Init ==
    /\ fn = "search_multiple_plates"
    /\ arg = << >>
    /\ ret = None
    /\ pc = "start"
    /\ plate_numbers \in SeqUpTo(BatchPlates, MaxPlates)
    /\ output_file \in BOOLEAN
    /\ driver = None
    /\ i = 0
    /\ results = << >>
    /\ calls = << >>
    /\ typed = << >>
    /\ seen = << >>
    /\ events = << >>
    /\ started = 0
    /\ quits = 0
    /\ saved = << >>
    /\ summary = << >>
    /\ how = None

\* driver = setup_driver() returns the session; the for loop is entered
SetupDriver ==
    /\ pc = "start"
    /\ started' = started + 1
    /\ driver' = "session"
    /\ i' = 1
    /\ pc' = "loop"
    /\ UNCHANGED << fn, arg, ret, plate_numbers, output_file, results, calls,
                    typed, seen, events, quits, saved, summary, how >>

\* setup_driver() catches the failure of webdriver.Chrome (no browser was
\* started) or of execute_script (the browser was) and calls sys.exit(1):
\* SystemExit passes both except clauses with driver still None
SetupDriverFails ==
    /\ pc = "start"
    /\ \E chrome \in BOOLEAN : started' = started + (IF chrome THEN 1 ELSE 0)
    /\ how' = "SystemExit"
    /\ pc' = "finally"
    /\ UNCHANGED << fn, arg, ret, plate_numbers, output_file, driver, i,
                    results, calls, typed, seen, events, quits, saved, summary >>

\* Validate without the continue statement: the invalid input is recorded and
\* then searched
ValidateNoContinue ==
    /\ pc = "loop"
    /\ i <= Len(plate_numbers)
    /\ LET plate_number == plate_numbers[i]
           v == validate_plate_number(plate_number)
       IN  IF ~ v[1]
           THEN /\ results' = Append(results,
                                [ plate_number |-> plate_number,
                                  status |-> "invalid",
                                  message |-> v[2] ])
                /\ seen' = Append(seen, "none")
                /\ pc' = "search"
                /\ UNCHANGED i
           ELSE /\ pc' = "search"
                /\ UNCHANGED << results, seen, i >>
    /\ UNCHANGED << fn, arg, ret, plate_numbers, output_file, driver, calls,
                    typed, events, started, quits, saved, summary, how >>

\* top of one iteration: validate_plate_number; an invalid input is recorded
\* and the loop continues, a valid one goes on to search_plate_number
Validate ==
    /\ pc = "loop"
    /\ i <= Len(plate_numbers)
    /\ LET plate_number == plate_numbers[i]
           v == validate_plate_number(plate_number)
       IN  IF ~ v[1]
           THEN /\ results' = Append(results,
                                [ plate_number |-> plate_number,
                                  status |-> "invalid",
                                  message |-> v[2] ])
                /\ seen' = Append(seen, "none")
                /\ i' = i + 1
                /\ pc' = "loop"
           ELSE /\ pc' = "search"
                /\ UNCHANGED << results, seen, i >>
    /\ UNCHANGED << fn, arg, ret, plate_numbers, output_file, driver, calls,
                    typed, events, started, quits, saved, summary, how >>

\* Search with results.insert(0, result) in place of results.append(result)
SearchPrepends ==
    /\ pc = "search"
    /\ \E page \in BatchOutcomes :
         LET plate_number == plate_numbers[i]
         IN  /\ calls' = Append(calls, plate_number)
             /\ typed' = typed \o SentKeys(plate_number, page)
             /\ results' = << search_plate_number(plate_number, page) >> \o results
             /\ seen' = << page.kind >> \o seen
    /\ events' = Append(events, "check")
    /\ IF i < Len(plate_numbers)
       THEN pc' = "sleep" /\ i' = i
       ELSE pc' = "loop" /\ i' = i + 1
    /\ UNCHANGED << fn, arg, ret, plate_numbers, output_file, driver, started,
                    quits, saved, summary, how >>

\* Search with a search_plate_number that lacks the except Exception clause:
\* an unexpected error leaves the loop through the handler of
\* search_multiple_plates
SearchRaises ==
    /\ pc = "search"
    /\ \E page \in BatchOutcomes :
         LET plate_number == plate_numbers[i]
         IN  /\ calls' = Append(calls, plate_number)
             /\ typed' = typed \o SentKeys(plate_number, page)
             /\ IF page.kind = "Exception"
                THEN /\ how' = "Exception"
                     /\ pc' = "finally"
                     /\ UNCHANGED << results, seen, events, i >>
                ELSE /\ results' = Append(results, search_plate_number(plate_number, page))
                     /\ seen' = Append(seen, page.kind)
                     /\ events' = Append(events, "check")
                     /\ how' = how
                     /\ IF i < Len(plate_numbers)
                        THEN pc' = "sleep" /\ i' = i
                        ELSE pc' = "loop" /\ i' = i + 1
    /\ UNCHANGED << fn, arg, ret, plate_numbers, output_file, driver, started,
                    quits, saved, summary >>

\* result = search_plate_number(driver, plate_number); results.append(result);
\* then the test i < len(plate_numbers) that guards time.sleep(2)
Search ==
    /\ pc = "search"
    /\ \E page \in BatchOutcomes :
         LET plate_number == plate_numbers[i]
         IN  /\ calls' = Append(calls, plate_number)
             /\ typed' = typed \o SentKeys(plate_number, page)
             /\ results' = Append(results, search_plate_number(plate_number, page))
             /\ seen' = Append(seen, page.kind)
    /\ events' = Append(events, "check")
    /\ IF i < Len(plate_numbers)
       THEN pc' = "sleep" /\ i' = i
       ELSE pc' = "loop" /\ i' = i + 1
    /\ UNCHANGED << fn, arg, ret, plate_numbers, output_file, driver, started,
                    quits, saved, summary, how >>

\* time.sleep(2), then the next iteration
Sleep ==
    /\ pc = "sleep"
    /\ events' = Append(events, "pause")
    /\ i' = i + 1
    /\ pc' = "loop"
    /\ UNCHANGED << fn, arg, ret, plate_numbers, output_file, driver, results,
                    calls, typed, seen, started, quits, saved, summary, how >>

\* after the loop: save_results_to_csv when an output file was given; opening
\* or writing the file may raise, which the except Exception clause catches
Save ==
    /\ pc = "loop"
    /\ i > Len(plate_numbers)
    /\ IF output_file
       THEN \E ok \in BOOLEAN :
              IF ok
              THEN saved' = << results >> /\ pc' = "summary" /\ how' = how
              ELSE saved' = saved /\ pc' = "finally" /\ how' = "Exception"
       ELSE saved' = saved /\ pc' = "summary" /\ how' = how
    /\ UNCHANGED << fn, arg, ret, plate_numbers, output_file, driver, i,
                    results, calls, typed, seen, events, started, quits, summary >>

\* print_summary(results); the try block ends normally
PrintSummary ==
    /\ pc = "summary"
    /\ summary' = << results >>
    /\ how' = "normal"
    /\ pc' = "finally"
    /\ UNCHANGED << fn, arg, ret, plate_numbers, output_file, driver, i,
                    results, calls, typed, seen, events, started, quits, saved >>

\* Ctrl-C anywhere inside the try block: search_plate_number's handlers do
\* not catch KeyboardInterrupt, the except KeyboardInterrupt clause of
\* search_multiple_plates only prints.  Inside search_plate_number the call
\* has begun and send_keys may or may not have been reached.
KeyboardInterrupt ==
    /\ pc \in { "start", "loop", "search", "sleep", "summary" }
    /\ IF pc = "search"
       THEN /\ calls' = Append(calls, plate_numbers[i])
            /\ \E sent \in BOOLEAN :
                 typed' = typed \o (IF sent THEN << plate_numbers[i] >> ELSE << >>)
       ELSE UNCHANGED << calls, typed >>
    /\ how' = "KeyboardInterrupt"
    /\ pc' = "finally"
    /\ UNCHANGED << fn, arg, ret, plate_numbers, output_file, driver, i,
                    results, seen, events, started, quits, saved, summary >>

\* driver.quit() as the last statement of the try block instead of a finally
\* clause: it runs only when the block ends normally
FinallyOnlyNormal ==
    /\ pc = "finally"
    /\ IF driver # None /\ how = "normal"
       THEN quits' = quits + 1 /\ events' = Append(events, "quit")
       ELSE UNCHANGED << quits, events >>
    /\ pc' = "done"
    /\ UNCHANGED << fn, arg, ret, plate_numbers, output_file, driver, i,
                    results, calls, typed, seen, started, saved, summary, how >>

\* finally: if driver: driver.quit()
Finally ==
    /\ pc = "finally"
    /\ IF driver # None
       THEN quits' = quits + 1 /\ events' = Append(events, "quit")
       ELSE UNCHANGED << quits, events >>
    /\ pc' = "done"
    /\ UNCHANGED << fn, arg, ret, plate_numbers, output_file, driver, i,
                    results, calls, typed, seen, started, saved, summary, how >>

Next ==
    \/ SetupDriver
    \/ SetupDriverFails
    \/ Validate
    \/ Search
    \/ Sleep
    \/ Save
    \/ PrintSummary
    \/ KeyboardInterrupt
    \/ Finally

Spec == Init /\ [][Next]_vars

----------------------------------------------------------------------------
(* Properties *)

\* the text a finished search_plate_number call read from the page
ReturnedFromText == fn \in { "plate_search", "plate_search_simple" } /\ arg.kind = "text"

SaysNotAvailable(text) ==
    \/ Contains(Lower(text), sNotAvailable)
    \/ Contains(Lower(text), sUnavailable)

\* C1: in both variants of search_plate_number, a result text that contains
\* "not available" or "unavailable" in any letter case gives the status
\* "unavailable".
C1_NotAvailableIsUnavailable ==
    (ReturnedFromText /\ SaysNotAvailable(arg.text))
        => ret.status = "unavailable"

\* C2: in plate_search_simple.search_plate_number, every result text that
\* contains "taken" in any letter case gives the status "unavailable", also
\* when it contains "available" or "congratulations" as well.
C2_TakenIsUnavailable ==
    (fn = "plate_search_simple" /\ arg.kind = "text"
        /\ Contains(Lower(arg.text), sTaken))
        => ret.status = "unavailable"

\* the input with every whitespace character removed
RECURSIVE RemoveWhitespace(_)
RemoveWhitespace(s) ==
    IF s = << >> THEN << >>
    ELSE IF IsSpaceCh(Head(s)) THEN RemoveWhitespace(Tail(s))
         ELSE << Head(s) >> \o RemoveWhitespace(Tail(s))

\* C3: validate_plate_number accepts an input exactly when its
\* whitespace-stripped form is non-empty, at most 7 characters long and made
\* of letters and digits only, and rejects with the length reason when the
\* stripped form has more than 7 characters.
C3_ValidatesStrippedForm ==
    fn = "validate_plate_number" =>
        LET stripped == RemoveWhitespace(arg)
        IN  /\ ret[1] <=> ( /\ stripped # << >>
                            /\ Len(stripped) <= 7
                            /\ \A k \in 1..Len(stripped) : IsAlnumCh(stripped[k]) )
            /\ Len(stripped) > 7 =>
                 ret = << FALSE, << "Plate number cannot be longer than 7 characters" >> >>

Valid(plate_number) == validate_plate_number(plate_number)[1]

\* the batch is over, the session had been set up and no Ctrl-C arrived
FinishedUninterrupted ==
    pc = "done" /\ driver # None /\ how \in { "normal", "Exception" }

\* C4: after a run that is not interrupted and in which the session was set
\* up, the result list has one entry per input, the i-th entry being the
\* result of the i-th input.
C4_OneResultPerInputInOrder ==
    FinishedUninterrupted =>
        /\ Len(results) = Len(plate_numbers)
        /\ \A k \in 1..Len(results) :
             /\ results[k].plate_number = plate_numbers[k]
             /\ (results[k].status = "invalid") <=> ~ Valid(plate_numbers[k])

C4_Witness ==
    /\ pc = "done" /\ how = "normal"
    /\ Len(results) >= 3
    /\ \E a, b, c \in 1..Len(results) :
         /\ results[a].status = "invalid"
         /\ results[b].status = "error"
         /\ results[c].status = "unavailable"
         /\ plate_numbers[a] # plate_numbers[b]
         /\ plate_numbers[b] # plate_numbers[c]

\* C5: the session is acquired at most once and before the first query;
\* once acquired it is released exactly once however the batch ends, nothing
\* is done with it after the release, and no release is attempted when the
\* acquisition failed.
C5_SessionReleasedExactlyOnce ==
    /\ started <= 1
    /\ calls # << >> => driver # None
    /\ pc = "done" => quits = (IF driver # None THEN 1 ELSE 0)
    /\ quits > 0 => pc = "done"
    /\ \A j, k \in 1..Len(events) :
         (j < k /\ events[j] = "quit") => events[k] \notin { "check", "quit" }

C5_Witness ==
    /\ pc = "done" /\ how = "KeyboardInterrupt"
    /\ quits = 1
    /\ Len(calls) > Len(seen)
    /\ results # << >>

\* C6: when the user interrupts the batch after k queries were recorded, the
\* k results are still written to the output file (when one was given) and
\* reported in the summary.
C6_InterruptStillFlushes ==
    (pc = "done" /\ how = "KeyboardInterrupt" /\ Len(results) >= 1) =>
        /\ summary = << results >>
        /\ output_file => saved = << results >>

\* C7: an input that fails validation becomes exactly one result with status
\* "invalid" and the validation message, search_plate_number is never called
\* for it, and a completed batch has called search_plate_number once per
\* input that passed validation.
C7_InvalidNeverSearched ==
    /\ Len(results) <= Len(plate_numbers)
    /\ \A k \in 1..Len(results) :
         ~ Valid(plate_numbers[k]) =>
             results[k] = [ plate_number |-> plate_numbers[k],
                            status |-> "invalid",
                            message |-> validate_plate_number(plate_numbers[k])[2] ]
    /\ \A k \in 1..Len(calls) : Valid(calls[k])
    /\ FinishedUninterrupted =>
         /\ Len(results) = Len(plate_numbers)
         /\ Len(calls) = Cardinality({ k \in 1..Len(plate_numbers) : Valid(plate_numbers[k]) })

C7_Witness ==
    /\ pc = "done" /\ how = "normal"
    /\ \E k \in 1..(Len(results) - 1) :
         /\ results[k].status = "invalid"
         /\ results[k].message = << "Plate number should only contain letters and numbers" >>
         /\ results[k + 1].status # "invalid"

\* number of finished search_plate_number calls
Searched == Cardinality({ k \in 1..Len(seen) : seen[k] # "none" })

\* C8: an exception during the interaction of one query gives a result with
\* status "error" for that plate, the query is attempted once, and the batch
\* goes on to the inputs after it.
C8_ErrorIsRecordedAndBatchGoesOn ==
    /\ Len(seen) = Len(results)
    /\ \A k \in 1..Len(results) :
         seen[k] \in Raised =>
             /\ results[k].status = "error"
             /\ results[k].plate_number = plate_numbers[k]
    /\ Len(calls) \in { Searched, Searched + 1 }
    /\ Len(calls) = Searched + 1 => how = "KeyboardInterrupt"
    /\ (pc = "done" /\ driver # None /\ how # "KeyboardInterrupt") =>
         Len(results) = Len(plate_numbers)

C8_Witness ==
    /\ pc = "done" /\ how = "normal"
    /\ \E k \in 1..(Len(results) - 1) :
         /\ seen[k] = "TimeoutException"
         /\ results[k].status = "error"
         /\ seen[k + 1] = "text"

\* upper-cased, with all whitespace removed
Cleaned(plate_number) == Upper(RemoveWhitespace(plate_number))

\* C9: for every input that passes validation, the value typed into the page
\* and stored as plate_number in the result is the cleaned form of the input.
C9_SearchesCleanedPlate ==
    /\ \A k \in 1..Len(results) :
         results[k].status # "invalid" =>
             results[k].plate_number = Cleaned(plate_numbers[k])
    /\ \A k \in 1..Len(typed) :
         \E j \in 1..Len(plate_numbers) :
             Valid(plate_numbers[j]) /\ typed[k] = Cleaned(plate_numbers[j])

IsCheckOrPause(e) == e \in { "check", "pause" }

\* C10: pauses occur only between two successive browser-backed checks:
\* one pause after every check but the last, none after the last.
C10_PauseOnlyBetweenChecks ==
    (pc = "done" /\ how = "normal") =>
        LET ev == SelectSeq(events, IsCheckOrPause)
        IN  /\ \A k \in 1..Len(ev) :
                 ev[k] = "pause" =>
                     /\ k > 1 /\ ev[k - 1] = "check"
                     /\ k < Len(ev) /\ ev[k + 1] = "check"
            /\ \A k \in 1..(Len(ev) - 1) :
                 ev[k] = "check" => ev[k + 1] = "pause"

====
